---- MODULE Spec2Model ----
(***************************************************************************)
(* A model of the Dsalta SDK client (src/src/index.ts, src/src/types.ts).  *)
(*                                                                         *)
(* index.ts holds two designs of the same class:                           *)
(*   - the buffer variant (lines 1-263): hashFile takes a path string, a   *)
(*     Buffer or a readable stream and materializes the bytes locally;     *)
(*   - the rich-file variant (lines 265-517): hashFile takes a File object *)
(*     and never reads bytes locally.                                      *)
(* The variable "variant" says which of the two classes a behaviour runs.  *)
(*                                                                         *)
(* Conventions.                                                            *)
(*   - An optional JavaScript value is a sequence of length at most one:   *)
(*     None (undefined, which is also what reading an absent property      *)
(*     gives) or Some(v).  Where the code tells a property that is absent  *)
(*     from one that is present with the value undefined (object spread),  *)
(*     the object carries the set "own" of the properties it has.          *)
(*   - File names, paths and messages are sequences of string pieces, so   *)
(*     that path.basename, the extension lookup and template-literal       *)
(*     concatenation are computed and not assumed.  <<>> is the empty      *)
(*     string.                                                             *)
(*   - Byte buffers are sequences of integers; base64 text is a sequence   *)
(*     of base64 characters.                                               *)
(***************************************************************************)
EXTENDS Integers, Sequences, FiniteSets

None == <<>>
Some(v) == <<v>>
IsSome(o) == Len(o) = 1
Val(o) == o[1]

\* JavaScript truthiness of an optional string given as a sequence of pieces
\* (undefined and '' are falsy).
TruthySeq(o) == IsSome(o) /\ Val(o) # <<>>
\* JavaScript truthiness of an optional TLA+ string.
TruthyStr(o) == IsSome(o) /\ Val(o) # ""
\* JavaScript truthiness of an optional number (undefined and 0 are falsy).
TruthyNum(o) == IsSome(o) /\ Val(o) # 0

Variants == {"buffer", "rich"}

\* The calls of hashFile a behaviour may hold.
NumCalls == 2
Calls == 1..NumCalls

-----------------------------------------------------------------------------
(* Construction *)

ApiKeys == {None, Some(""), Some("k1")}
BaseUrls == {None, Some(""), Some("https://api.example.com")}
Timeouts == {None, Some(100)}

\* The properties a configuration object may have of its own.
ConfigKeys == {"apiKey", "baseUrl", "timeout", "hashAlgorithm"}

\* DsaltaConfig as the caller passes it (types.ts 4-13): own is the set of
\* properties the object has; one of them may hold undefined (None), as in
\* { apiKey: 'k1', baseUrl: process.env.X }, and a property it lacks reads
\* as undefined.  (The callers of the model leave hashAlgorithm out.)
ConfigInputs ==
  {cfg \in [apiKey : ApiKeys, baseUrl : BaseUrls, timeout : Timeouts,
            hashAlgorithm : {None}, own : SUBSET (ConfigKeys \ {"hashAlgorithm"})] :
     /\ "apiKey" \notin cfg.own => cfg.apiKey = None
     /\ "baseUrl" \notin cfg.own => cfg.baseUrl = None
     /\ "timeout" \notin cfg.own => cfg.timeout = None}

DEFAULT_CONFIG ==
  [apiKey |-> None,
   baseUrl |-> Some("http://localhost:3003"),
   timeout |-> Some(5000),
   hashAlgorithm |-> Some("sha256")]

DEFAULT_CONFIG_rich ==
  [apiKey |-> None,
   baseUrl |-> None,
   timeout |-> Some(5000),
   hashAlgorithm |-> None]

\* { ...defaults, ...config }: every own property of config, one holding
\* undefined too, replaces the default's.  The result is given by the value
\* each property reads as.
mergeConfig(defaults, cfg) ==
  [f \in ConfigKeys |-> IF f \in cfg.own THEN cfg[f] ELSE defaults[f]]

\* None when the configuration is accepted, Some(message) for the Error thrown.
validateConfig(cfg) ==
  IF ~TruthyStr(cfg.apiKey) THEN Some(<<"API key is required">>)
  ELSE None

validateConfig_rich(cfg) ==
  IF ~TruthyStr(cfg.apiKey) THEN Some(<<"API key is required">>)
  ELSE IF ~TruthyStr(cfg.baseUrl) THEN Some(<<"Base URL is required">>)
  ELSE None

\* axios.create(...): the settings the transport instance is bound to.
createHttpClient(cfg) ==
  [baseURL |-> cfg.baseUrl,
   timeout |-> cfg.timeout,
   headers |-> [Authorization |-> <<"Bearer ", Val(cfg.apiKey)>>,
                Accept |-> "application/json"]]

-----------------------------------------------------------------------------
(* File references and file-info resolution *)

\* Path strings, piece by piece; "/" and "." are the only pieces that
\* path.basename and the extension lookup look at.
Paths ==
  { <<".", "/", "report", ".", "pdf">>,
    <<".", "/", "doc", ".", "pdf">>,
    <<"dir", "/", "notes", ".", "zzz">>,
    <<"dir", "/", "sub", "/">>,
    <<"SCAN", ".", "PDF">>,
    <<"pdf">>,
    <<"/">> }

ByteSeqs == { <<>>, <<65>>, <<1, 2>> }
ChunkSeqs == { <<>>, << <<65>> >>, << <<1>>, <<2>> >> }

OctetStream == "application/octet-stream"

PathFiles == {[kind |-> "path", path |-> p] : p \in Paths}
BufferFiles == {[kind |-> "buffer", bytes |-> b] : b \in ByteSeqs}
StreamFiles == {[kind |-> "stream", chunks |-> cs] : cs \in ChunkSeqs}
\* A File object: its name and type are always strings, '' when unknown.
\* readable: the object has, besides what a File has, the methods of a
\* readable stream (on, pause, resume); a File as the platform makes it has
\* not.
RichFiles ==
  {[kind |-> "file", name |-> n, type |-> t, readable |-> r] :
     n \in { <<"photo", ".", "png">>, <<"report", ".", "pdf">> },
     t \in {"", "image/png"},
     r \in BOOLEAN}

\* The file references each variant's hashFile is declared to take.
FilesOf(v) ==
  IF v = "buffer" THEN PathFiles \cup BufferFiles \cup StreamFiles ELSE RichFiles

NoFile == [kind |-> "none"]

\* The largest index of s holding piece p, 0 when there is none.
LastIndexOf(s, p) ==
  LET hits == {i \in 1..Len(s) : s[i] = p}
  IN IF hits = {} THEN 0 ELSE CHOOSE i \in hits : \A j \in hits : j <= i

\* basename that leaves the path as it is.
basename_whole(p) == p

\* path.basename (posix): trailing slashes are dropped, then the text after
\* the last remaining slash; '' for a path of slashes only.
basename(p) ==
  LET nonSlash == {i \in 1..Len(p) : p[i] # "/"}
      end == IF nonSlash = {} THEN 0
             ELSE CHOOSE i \in nonSlash : \A j \in nonSlash : j <= i
      start == LastIndexOf(SubSeq(p, 1, end), "/") + 1
  IN IF end = 0 THEN <<>> ELSE SubSeq(p, start, end)

\* path.extname: from the last dot of the base name to its end; '' when there
\* is no dot, when the dot opens the base name, and for "..".
extname(p) ==
  LET b == basename(p)
      d == LastIndexOf(b, ".")
  IN IF d = 0 \/ d = 1 \/ b = <<".", ".">> THEN <<>>
     ELSE SubSeq(b, d, Len(b))

\* String.prototype.toLowerCase on the pieces the model's names are made of.
toLowerCase(piece) ==
  CASE piece = "PDF" -> "pdf"
    [] piece = "PNG" -> "png"
    [] piece = "SCAN" -> "scan"
    [] OTHER -> piece

\* mime.types, the extension table built from mime-db: its entries for the
\* words the model's names are made of (report, notes, zzz, scan, photo,
\* file and srv are no extensions of mime-db).
mimeTypes(extension) ==
  CASE extension = <<"pdf">> -> Some("application/pdf")
    [] extension = <<"png">> -> Some("image/png")
    [] extension = <<"txt">> -> Some("text/plain")
    [] extension = <<"doc">> -> Some("application/msword")
    [] extension = <<"dir">> -> Some("application/x-director")
    [] extension = <<"sub">> -> Some("text/vnd.dvb.subtitle")
    [] OTHER -> None

\* mime.lookup: None stands for false.
lookup(p) ==
  IF p = <<>> THEN None
  ELSE LET e == extname(<<"x", ".">> \o p)
           extension == [i \in 1..(Len(e) - 1) |-> toLowerCase(e[i + 1])]
       IN IF extension = <<>> THEN None ELSE mimeTypes(extension)

getFileInfo(f) ==
  IF f.kind = "path"
  THEN LET filename == basename(f.path)
       IN [filename |-> filename,
           fileType |-> IF TruthyStr(lookup(filename))
                        THEN Val(lookup(filename)) ELSE OctetStream]
  ELSE [filename |-> <<"file">>, fileType |-> OctetStream]

getFileInfo_rich(f) ==
  [filename |-> f.name,
   fileType |-> IF f.type # "" THEN f.type ELSE OctetStream]

-----------------------------------------------------------------------------
(* Thrown values and completions *)

\* A thrown Error instance, a thrown value that is no Error, and an AxiosError
\* (response: None, or Some of the HTTP response it carries).
Err(msg) == [isError |-> TRUE, isAxios |-> FALSE, message |-> msg, response |-> None]
NonError == [isError |-> FALSE, isAxios |-> FALSE, message |-> <<>>, response |-> None]
AxiosErr(msg, resp) ==
  [isError |-> TRUE, isAxios |-> TRUE, message |-> msg, response |-> resp]

\* How a function call ends: it returns a value or throws one.
Return(v) == [type |-> "return", value |-> v]
Throw(e) == [type |-> "throw", value |-> e]

-----------------------------------------------------------------------------
(* Byte materialization *)

\* The path names a directory whatever the file system holds: it ends in a
\* slash.  It is the root when it holds slashes only.
EndsInSlash(p) == p # <<>> /\ p[Len(p)] = "/"
IsRoot(p) == p # <<>> /\ \A i \in 1..Len(p) : p[i] = "/"
\* Some segment before a slash is a name (not "."), which may be that of a file.
HasNamedDirectory(p) == \E i \in 2..Len(p) : p[i] = "/" /\ p[i - 1] \notin {".", "/"}

\* The errors fs.promises.readFile(p) rejects with: the root is there and is
\* a directory; any other path may be missing, unreadable or a directory,
\* and one that goes through a named segment may find a file there.
FsErrors(p) ==
  { Err(<<"EISDIR: illegal operation on a directory, read">>) }
  \cup (IF IsRoot(p) THEN {}
        ELSE { Err(<<"ENOENT: no such file or directory, open '">> \o p \o <<"'">>),
               Err(<<"EACCES: permission denied, open '">> \o p \o <<"'">>) })
  \cup (IF HasNamedDirectory(p)
        THEN { Err(<<"ENOTDIR: not a directory, open '">> \o p \o <<"'">>) }
        ELSE {})
StreamErrors == { Err(<<"stream failed">>), NonError }

\* What the file system or the stream does while fileToBuffer waits.
ReadEvents(f) ==
  CASE f.kind = "buffer" -> {[event |-> "none"]}
    [] f.kind = "path" ->
         (IF EndsInSlash(f.path) THEN {}
          ELSE {[event |-> "read", bytes |-> b] : b \in ByteSeqs})
         \cup {[event |-> "error", error |-> e] : e \in FsErrors(f.path)}
    [] f.kind = "stream" ->
         {[event |-> "end"]} \cup {[event |-> "error", error |-> e] : e \in StreamErrors}
    [] OTHER -> {}

RECURSIVE concat(_)
\* Buffer.concat(chunks)
concat(chunks) ==
  IF chunks = <<>> THEN <<>> ELSE Head(chunks) \o concat(Tail(chunks))

fileToBuffer(f, ev) ==
  IF f.kind = "buffer" THEN Return(f.bytes)
  ELSE IF f.kind = "path"
  THEN IF ev.event = "read" THEN Return(ev.bytes) ELSE Throw(ev.error)
  ELSE IF ev.event = "end" THEN Return(concat(f.chunks)) ELSE Throw(ev.error)

-----------------------------------------------------------------------------
(* Request construction *)

\* FileMetadata values: a list of key/value pairs; an object whose property
\* "closes" holds the object itself (const m = {}; m.self = m), which
\* JSON.stringify refuses with a TypeError; an object whose toJSON method
\* throws a value that is no Error, which JSON.stringify lets through.
MetaJane == [json |-> "ok", entries |-> << <<"author", "Jane">> >>]
MetaEmpty == [json |-> "ok", entries |-> <<>>]
MetaCircular == [json |-> "circular", entries |-> <<>>, closes |-> "self"]
MetaThrowing == [json |-> "toJSON throws", entries |-> <<>>]
Metadatas ==
  {None, Some(MetaJane), Some(MetaEmpty), Some(MetaCircular), Some(MetaThrowing)}

RECURSIVE stringifyEntries(_)
stringifyEntries(es) ==
  IF es = <<>> THEN <<>>
  ELSE <<"\"", Head(es)[1], "\":\"", Head(es)[2], "\"">>
       \o (IF Len(es) > 1 THEN <<",">> ELSE <<>>)
       \o stringifyEntries(Tail(es))

\* JSON.stringify(metadata).  The TypeError for an object that holds itself
\* names, on two further lines, where the circle starts and the property
\* that closes it.
stringify(m) ==
  IF m.json = "circular"
  THEN Throw(Err(<<"Converting circular structure to JSON",
                   "\n    --> starting at object with constructor 'Object'",
                   "\n    --- property '", m.closes, "' closes the circle">>))
  ELSE IF m.json = "toJSON throws" THEN Throw(NonError)
  ELSE Return(<<"{">> \o stringifyEntries(m.entries) \o <<"}">>)

\* The module the import of 'form-data' resolves to: the package's main
\* entry (lib/form_data.js, a combined stream) or its browser entry
\* (lib/browser.js, the native FormData).  The buffer variant needs fs, path
\* and Buffer and so runs with the main entry only.
FormDataEntries == {"lib/form_data", "lib/browser"}
EntriesOf(v) == IF v = "buffer" THEN {"lib/form_data"} ELSE FormDataEntries

\* The boundaries a form may generate for its multipart body.
Boundaries == {"boundary-1", "boundary-2"}

\* formData.append(name, value): the main entry takes strings and Buffers as
\* they are and calls value.on(...) on everything else, which a readable
\* stream has and a File of the platform has not; the native FormData takes
\* a File.
append(entry, formData, name, value) ==
  IF entry = "lib/form_data" /\ value.kind = "file" /\ ~value.readable
  THEN Throw(Err(<<"source.on is not a function">>))
  ELSE Return(Append(formData, [name |-> name, value |-> value]))

createFormData(entry, f, metadata) ==
  LET withFile == append(entry, <<>>, "file", f)
  IN IF withFile.type = "throw" THEN withFile
     ELSE IF IsSome(metadata)
     THEN LET json == stringify(Val(metadata))
          IN IF json.type = "throw" THEN json
             ELSE Return(Append(withFile.value,
                                [name |-> "metadata", value |-> json.value]))
     ELSE withFile

\* formData.getHeaders(): the multipart content type with the form's
\* boundary; the native FormData has no such method.
getHeaders(entry, boundary) ==
  IF entry = "lib/form_data"
  THEN Return([h \in {"content-type"} |->
                 <<"multipart/form-data; boundary=", boundary>>])
  ELSE Throw(Err(<<"formData.getHeaders is not a function">>))

\* this.client.post('/hash/file', formData, { headers }): the request that
\* leaves, the headers given with the call laid over the client's.
post(cl, formData, options) ==
  [method |-> "POST",
   url |-> "/hash/file",
   baseURL |-> cl.baseURL,
   timeout |-> cl.timeout,
   headers |-> [h \in DOMAIN cl.headers \cup DOMAIN options.headers |->
                  IF h \in DOMAIN options.headers THEN options.headers[h]
                  ELSE cl.headers[h]],
   data |-> formData]

-----------------------------------------------------------------------------
(* base64 *)

\* The value of a base64 character (the characters the model's texts use).
b64Value(ch) ==
  CASE ch = "A" -> 0 [] ch = "D" -> 3 [] ch = "I" -> 8 [] ch = "J" -> 9
    [] ch = "Q" -> 16 [] ch = "U" -> 20 [] OTHER -> 0

\* Base64 texts a server may echo: '', 'QQ==', 'QUI=', 'QUJD'.
Base64Texts ==
  { <<>>, <<"Q", "Q", "=", "=">>, <<"Q", "U", "I", "=">>, <<"Q", "U", "J", "D">> }

RECURSIVE stripPadding(_)
stripPadding(t) ==
  IF t # <<>> /\ t[Len(t)] = "=" THEN stripPadding(SubSeq(t, 1, Len(t) - 1)) ELSE t

RECURSIVE decodeGroups(_)
\* Four characters give three bytes, three give two, two give one.
decodeGroups(t) ==
  IF Len(t) < 2 THEN <<>>
  ELSE LET v1 == b64Value(t[1])
           v2 == b64Value(t[2])
           b1 == v1 * 4 + v2 \div 16
       IN IF Len(t) = 2 THEN <<b1>>
          ELSE LET v3 == b64Value(t[3])
                   b2 == (v2 % 16) * 16 + v3 \div 4
               IN IF Len(t) = 3 THEN <<b1, b2>>
                  ELSE LET b3 == (v3 % 4) * 64 + b64Value(t[4])
                       IN <<b1, b2, b3>> \o decodeGroups(SubSeq(t, 5, Len(t)))

\* Buffer.from(text, 'base64')
fromBase64(t) == decodeGroups(stripPadding(t))

-----------------------------------------------------------------------------
(* What the server and the transport may answer *)

ServerTimestamp == "2024-01-01T00:00:00.000Z"
\* The local clock: its successive readings as toISOString() prints them, and
\* the place of the present one among them.
ClockReadings == <<"2024-06-01T12:00:00.000Z", "2024-06-01T12:00:00.001Z">>
VARIABLE now
\* new Date().toISOString() at the time a failure result is built.
NowISO == ClockReadings[now]

\* ApiSuccessResponse (types.ts 79-89)
SuccessBodies ==
  [success : {TRUE},
   timestamp : {ServerTimestamp},
   data : [file : Base64Texts,
           hash : {"abc123"},
           metadata : {MetaJane, MetaEmpty},
           filename : {None, Some(<<>>), Some(<<"srv", ".", "txt">>)},
           fileType : {None, Some(""), Some("text/plain")}]]

\* ApiErrorResponse (types.ts 94-103), as a 2xx response carries it.
ErrorBodies ==
  [success : {FALSE},
   timestamp : {ServerTimestamp},
   message : { <<"Hash failed">>, <<>> },
   status : {422, 0},
   code : {None, Some("HASH_ERROR")},
   data : {None, Some([file |-> None]), Some([file |-> Some(<<>>)]),
           Some([file |-> Some(<<"Q", "U", "I", "=">>)])}]

\* The body of a non-2xx response: any JSON object, its fields optional.
RejectedBodies ==
  [message : {None, Some(<<>>), Some(<<"API authentication failed">>)},
   status : {None, Some(0), Some(401)},
   code : {None, Some("AUTH_ERROR"), Some("UNEXPECTED_ERROR")}]

\* What client.post settles with: a 2xx response, or a rejection with an
\* AxiosError (with a body, with a response but no body, with no response:
\* network failure or timeout) or with any other thrown value.
PostOutcomes ==
  {[kind |-> "response", data |-> b] : b \in SuccessBodies \cup ErrorBodies}
  \cup {[kind |-> "error",
         error |-> AxiosErr(<<"Request failed with status code">>,
                            Some([status |-> st, data |-> Some(b)]))] :
          st \in {0, 401}, b \in RejectedBodies}
  \cup {[kind |-> "error",
         error |-> AxiosErr(<<"Request failed with status code">>,
                            Some([status |-> 502, data |-> None]))]}
  \cup {[kind |-> "error", error |-> AxiosErr(m, None)] :
          m \in { <<"Network Error">>, <<"timeout of 5000ms exceeded">> }}
  \cup {[kind |-> "error", error |-> e] : e \in {Err(<<"boom">>), NonError}}

-----------------------------------------------------------------------------
(* Results (HashFileResponse, types.ts 59-74) *)

\* createErrorResponse with a default put in for a missing code.
createErrorResponse_defaultCode(message, status, code, fileInfo, fileBuffer) ==
  [success |-> FALSE,
   timestamp |-> NowISO,
   file |-> fileBuffer,
   filename |-> fileInfo.filename,
   fileType |-> fileInfo.fileType,
   error |-> Some([message |-> message, status |-> status,
                   code |-> IF IsSome(code) THEN code ELSE Some("UNEXPECTED_ERROR")]),
   data |-> None]

\* error and data are optional; in the error descriptor (DsaltaError, types.ts
\* 35-42) status and code are optional.
createErrorResponse(message, status, code, fileInfo, fileBuffer) ==
  [success |-> FALSE,
   timestamp |-> NowISO,
   file |-> fileBuffer,
   filename |-> fileInfo.filename,
   fileType |-> fileInfo.fileType,
   error |-> Some([message |-> message, status |-> status, code |-> code]),
   data |-> None]

\* createSuccessResponse that keeps the local file name and stamps the result
\* with the local clock.
createSuccessResponse_local(responseData, fileInfo, base64File) ==
  [success |-> TRUE,
   timestamp |-> NowISO,
   file |-> fromBase64(base64File),
   filename |-> fileInfo.filename,
   fileType |-> IF TruthyStr(responseData.data.fileType)
                THEN Val(responseData.data.fileType) ELSE fileInfo.fileType,
   error |-> None,
   data |-> Some([hash |-> responseData.data.hash,
                  metadata |-> responseData.data.metadata,
                  base64File |-> base64File])]

createSuccessResponse(responseData, fileInfo, base64File) ==
  [success |-> TRUE,
   timestamp |-> responseData.timestamp,
   file |-> fromBase64(base64File),
   filename |-> IF TruthySeq(responseData.data.filename)
                THEN Val(responseData.data.filename) ELSE fileInfo.filename,
   fileType |-> IF TruthyStr(responseData.data.fileType)
                THEN Val(responseData.data.fileType) ELSE fileInfo.fileType,
   error |-> None,
   data |-> Some([hash |-> responseData.data.hash,
                  metadata |-> responseData.data.metadata,
                  base64File |-> base64File])]

\* messageOr without the instanceof test.
messageOr_noFallback(error, fallback) == error.message

\* error instanceof Error ? error.message : fallback
messageOr(error, fallback) == IF error.isError THEN error.message ELSE fallback

\* hasResponseData that also asks the body for a code.
hasResponseData_needsCode(error) ==
  /\ error.isAxios /\ IsSome(error.response) /\ IsSome(Val(error.response).data)
  /\ IsSome(Val(Val(error.response).data).code)

\* axios.isAxiosError(error) && error.response?.data
hasResponseData(error) ==
  error.isAxios /\ IsSome(error.response) /\ IsSome(Val(error.response).data)

-----------------------------------------------------------------------------
(* hashFile, buffer variant *)

\* onReadFailure that reports the read error as an unexpected error.
onReadFailure_generic(error, fileInfo) ==
  Return(createErrorResponse(
           messageOr(error, <<"An unexpected error occurred">>),
           Some(500), Some("UNEXPECTED_ERROR"), fileInfo, <<>>))

\* The catch around fileToBuffer.
onReadFailure(error, fileInfo) ==
  Return(createErrorResponse(
           <<"Failed to read file: ">> \o messageOr(error, <<"Unknown error">>),
           Some(400), Some("FILE_READ_ERROR"), fileInfo, <<>>))

\* The try block after the response has arrived.
onResponse(responseData, fileInfo, fileBuffer) ==
  IF responseData.success
  THEN Return(createSuccessResponse(responseData, fileInfo, responseData.data.file))
  ELSE IF IsSome(responseData.data) /\ TruthySeq(Val(responseData.data).file)
  THEN Return(createErrorResponse(
                responseData.message, Some(responseData.status), responseData.code,
                fileInfo, fromBase64(Val(Val(responseData.data).file))))
  ELSE Return(createErrorResponse(
                responseData.message, Some(responseData.status), responseData.code,
                fileInfo, fileBuffer))

\* onRequestError without its fallback branch: what is not a structured
\* transport error is thrown on.
onRequestError_rethrow(error, fileInfo, fileBuffer) ==
  IF hasResponseData(error)
  THEN LET response == Val(error.response)
           errorData == Val(response.data)
       IN Return(createErrorResponse(
                   IF TruthySeq(errorData.message)
                   THEN Val(errorData.message) ELSE error.message,
                   IF TruthyNum(errorData.status) THEN errorData.status
                   ELSE IF response.status # 0 THEN Some(response.status)
                   ELSE Some(500),
                   errorData.code, fileInfo, fileBuffer))
  ELSE Throw(error)

\* onRequestError without the fallbacks of the status.
onRequestError_rawStatus(error, fileInfo, fileBuffer) ==
  IF hasResponseData(error)
  THEN LET response == Val(error.response)
           errorData == Val(response.data)
       IN Return(createErrorResponse(
                   IF TruthySeq(errorData.message)
                   THEN Val(errorData.message) ELSE error.message,
                   errorData.status,
                   errorData.code, fileInfo, fileBuffer))
  ELSE Return(createErrorResponse(
                messageOr(error, <<"An unexpected error occurred">>),
                Some(500), Some("UNEXPECTED_ERROR"), fileInfo, fileBuffer))

\* The catch around the request.
onRequestError(error, fileInfo, fileBuffer) ==
  IF hasResponseData(error)
  THEN LET response == Val(error.response)
           errorData == Val(response.data)
       IN Return(createErrorResponse(
                   IF TruthySeq(errorData.message)
                   THEN Val(errorData.message) ELSE error.message,
                   IF TruthyNum(errorData.status) THEN errorData.status
                   ELSE IF response.status # 0 THEN Some(response.status)
                   ELSE Some(500),
                   errorData.code, fileInfo, fileBuffer))
  ELSE Return(createErrorResponse(
                messageOr(error, <<"An unexpected error occurred">>),
                Some(500), Some("UNEXPECTED_ERROR"), fileInfo, fileBuffer))

-----------------------------------------------------------------------------
(* hashFile, rich-file variant *)

onResponse_rich(responseData, fileInfo, f) ==
  IF responseData.success
  THEN Return([success |-> TRUE,
               timestamp |-> responseData.timestamp,
               file |-> f,
               filename |-> IF TruthySeq(responseData.data.filename)
                            THEN Val(responseData.data.filename)
                            ELSE fileInfo.filename,
               fileType |-> IF TruthyStr(responseData.data.fileType)
                            THEN Val(responseData.data.fileType)
                            ELSE fileInfo.fileType,
               error |-> None,
               data |-> Some([hash |-> responseData.data.hash,
                              metadata |-> responseData.data.metadata,
                              base64File |-> responseData.data.file])])
  ELSE Return([success |-> FALSE,
               timestamp |-> NowISO,
               file |-> f,
               filename |-> fileInfo.filename,
               fileType |-> fileInfo.fileType,
               error |-> Some([message |-> responseData.message,
                               status |-> Some(responseData.status),
                               code |-> responseData.code]),
               data |-> None])

onRequestError_rich(error, fileInfo, f) ==
  IF hasResponseData(error)
  THEN LET response == Val(error.response)
           errorData == Val(response.data)
       IN Return([success |-> FALSE,
                  timestamp |-> NowISO,
                  file |-> f,
                  filename |-> fileInfo.filename,
                  fileType |-> fileInfo.fileType,
                  error |-> Some([message |-> IF TruthySeq(errorData.message)
                                              THEN Val(errorData.message)
                                              ELSE error.message,
                                  status |-> IF TruthyNum(errorData.status)
                                             THEN errorData.status
                                             ELSE IF response.status # 0
                                             THEN Some(response.status)
                                             ELSE Some(500),
                                  code |-> errorData.code]),
                  data |-> None])
  ELSE Return([success |-> FALSE,
               timestamp |-> NowISO,
               file |-> f,
               filename |-> fileInfo.filename,
               fileType |-> fileInfo.fileType,
               error |-> Some([message |->
                                 messageOr(error, <<"An unexpected error occurred">>),
                               status |-> Some(500),
                               code |-> Some("UNEXPECTED_ERROR")]),
               data |-> None])

-----------------------------------------------------------------------------
(* The state machine *)

VARIABLES
  variant,     \* "buffer" or "rich": which class the behaviour runs
  formDataEntry, \* the module 'form-data' resolves to in this build
  ctorInput,   \* Some(config) once new Dsalta(config) has been evaluated
  ctorError,   \* Some(message) when the constructor threw
  config,      \* this.config: Some(merged configuration) once assigned
  client,      \* this.client: Some(transport settings) once assigned
  pc,          \* per call: "idle", "reading", "building", "awaiting", "done"
  file,        \* per call: the file argument
  metadata,    \* per call: the metadata argument (None: not given)
  fileInfo,    \* per call: Some(getFileInfo(file)) once resolved
  fileBuffer,  \* per call: Some(bytes) once fileToBuffer has resolved
  readEvent,   \* per call: Some(what the file system or stream did)
  buildFault,  \* per call: Some(value thrown while the request was built)
  requests,    \* per call: the requests handed to the transport, in order
  postOutcome, \* per call: Some(what client.post settled with)
  result,      \* per call: Some(value the promise resolved with)
  raised,      \* per call: Some(value the promise rejected with)
  inFlightWith \* per call: the calls that were in flight when it was made

ctorVars == <<variant, formDataEntry, ctorInput, ctorError, config, client>>
callVars == <<pc, file, metadata, fileInfo, fileBuffer, readEvent, buildFault,
              requests, postOutcome, result, raised, inFlightWith>>
vars == <<now, ctorVars, callVars>>

Init ==
  /\ variant \in Variants
  /\ formDataEntry \in EntriesOf(variant)
  /\ ctorInput = None
  /\ ctorError = None
  /\ config = None
  /\ client = None
  /\ pc = [c \in Calls |-> "idle"]
  /\ file = [c \in Calls |-> NoFile]
  /\ metadata = [c \in Calls |-> None]
  /\ fileInfo = [c \in Calls |-> None]
  /\ fileBuffer = [c \in Calls |-> None]
  /\ readEvent = [c \in Calls |-> None]
  /\ buildFault = [c \in Calls |-> None]
  /\ requests = [c \in Calls |-> <<>>]
  /\ postOutcome = [c \in Calls |-> None]
  /\ result = [c \in Calls |-> None]
  /\ raised = [c \in Calls |-> None]
  /\ inFlightWith = [c \in Calls |-> {}]
  /\ now = 1

\* new Dsalta(cfg): validateConfig, then this.config, then this.client.
Construct(cfg) ==
  /\ ctorInput = None
  /\ ctorInput' = Some(cfg)
  /\ LET thrown == IF variant = "buffer" THEN validateConfig(cfg)
                   ELSE validateConfig_rich(cfg)
         merged == mergeConfig(IF variant = "buffer" THEN DEFAULT_CONFIG
                               ELSE DEFAULT_CONFIG_rich, cfg)
     IN IF IsSome(thrown)
        THEN /\ ctorError' = thrown
             /\ UNCHANGED <<config, client>>
        ELSE /\ config' = Some(merged)
             /\ client' = Some(createHttpClient(merged))
             /\ UNCHANGED ctorError
  /\ UNCHANGED <<now, variant, formDataEntry, callVars>>

\* The promise of call c settles with completion comp.
Settles(c, comp) ==
  /\ pc' = [pc EXCEPT ![c] = "done"]
  /\ IF comp.type = "return"
     THEN /\ result' = [result EXCEPT ![c] = Some(comp.value)]
          /\ UNCHANGED raised
     ELSE /\ raised' = [raised EXCEPT ![c] = Some(comp.value)]
          /\ UNCHANGED result

\* hashFile(f, m) is called on a constructed client: file info is resolved.
HashFile(c, f, m) ==
  /\ IsSome(client)
  /\ pc[c] = "idle"
  /\ file' = [file EXCEPT ![c] = f]
  /\ metadata' = [metadata EXCEPT ![c] = m]
  /\ fileInfo' = [fileInfo EXCEPT ![c] =
                    Some(IF variant = "buffer" THEN getFileInfo(f)
                         ELSE getFileInfo_rich(f))]
  /\ pc' = [pc EXCEPT ![c] = IF variant = "buffer" THEN "reading" ELSE "building"]
  /\ inFlightWith' = [inFlightWith EXCEPT ![c] =
                        {d \in Calls : pc[d] \notin {"idle", "done"}}]
  /\ UNCHANGED <<now, ctorVars, fileBuffer, readEvent, buildFault, requests,
                 postOutcome, result, raised>>

\* Buffer variant: await this.fileToBuffer(file), and its catch.
Materialize(c, ev) ==
  /\ pc[c] = "reading"
  /\ readEvent' = [readEvent EXCEPT ![c] = Some(ev)]
  /\ LET read == fileToBuffer(file[c], ev)
     IN IF read.type = "return"
        THEN /\ fileBuffer' = [fileBuffer EXCEPT ![c] = Some(read.value)]
             /\ pc' = [pc EXCEPT ![c] = "building"]
             /\ UNCHANGED <<result, raised>>
        ELSE /\ Settles(c, onReadFailure(read.value, Val(fileInfo[c])))
             /\ UNCHANGED fileBuffer
  /\ UNCHANGED <<now, ctorVars, file, metadata, fileInfo, buildFault, requests,
                 postOutcome, inFlightWith>>

\* LocalFile with the materialized bytes kept in one field of the client
\* that every call writes: a call finds there the bytes of the call that
\* materialized last (here: of the highest-numbered call that has).
LocalFile_shared(c) ==
  IF variant = "buffer"
  THEN LET written == {d \in Calls : IsSome(fileBuffer[d])}
       IN Val(fileBuffer[CHOOSE d \in written : \A e \in written : e <= d])
  ELSE file[c]

\* What the catch around the request is given as the local file: the
\* materialized bytes (buffer variant) or the reference (rich-file variant).
LocalFile(c) == IF variant = "buffer" THEN Val(fileBuffer[c]) ELSE file[c]

\* The catch block of call c, run on a thrown value.
Caught(c, error) ==
  IF variant = "buffer"
  THEN onRequestError(error, Val(fileInfo[c]), LocalFile(c))
  ELSE onRequestError_rich(error, Val(fileInfo[c]), LocalFile(c))

\* The request is built (the form, then its headers; boundary is the one
\* the form generates) and handed to the transport; a value thrown while it
\* is built (by formData.append, JSON.stringify or formData.getHeaders) is
\* caught and nothing is sent.
Send(c, boundary) ==
  /\ pc[c] = "building"
  /\ LET formData == createFormData(formDataEntry, file[c], metadata[c])
         headers == IF formData.type = "throw" THEN formData
                    ELSE getHeaders(formDataEntry, boundary)
     IN IF headers.type = "return"
        THEN /\ requests' = [requests EXCEPT ![c] =
                               Append(@, post(Val(client), formData.value,
                                              [headers |-> headers.value]))]
             /\ pc' = [pc EXCEPT ![c] = "awaiting"]
             /\ UNCHANGED <<buildFault, result, raised>>
        ELSE /\ buildFault' = [buildFault EXCEPT ![c] = Some(headers.value)]
             /\ Settles(c, Caught(c, headers.value))
             /\ UNCHANGED requests
  /\ UNCHANGED <<now, ctorVars, file, metadata, fileInfo, fileBuffer, readEvent,
                 postOutcome, inFlightWith>>

\* client.post settles; the rest of the try block, or the catch, runs.
Receive(c, out) ==
  /\ pc[c] = "awaiting"
  /\ postOutcome' = [postOutcome EXCEPT ![c] = Some(out)]
  /\ LET tried == IF out.kind = "error" THEN Throw(out.error)
                  ELSE IF variant = "buffer"
                  THEN onResponse(out.data, Val(fileInfo[c]), LocalFile(c))
                  ELSE onResponse_rich(out.data, Val(fileInfo[c]), LocalFile(c))
     IN Settles(c, IF tried.type = "throw" THEN Caught(c, tried.value) ELSE tried)
  /\ UNCHANGED <<now, ctorVars, file, metadata, fileInfo, fileBuffer, readEvent,
                 buildFault, requests, inFlightWith>>

\* One step of call c.
Step(c) ==
  \/ \E f \in FilesOf(variant), m \in Metadatas : HashFile(c, f, m)
  \/ \E ev \in ReadEvents(file[c]) : Materialize(c, ev)
  \/ \E b \in Boundaries : Send(c, b)
  \/ \E out \in PostOutcomes : Receive(c, out)

\* One client and one call of hashFile.
\* Time passes: the local clock moves on to its next reading.
Tick ==
  /\ now < Len(ClockReadings)
  /\ now' = now + 1
  /\ UNCHANGED <<ctorVars, callVars>>

Next ==
  \/ \E cfg \in ConfigInputs : Construct(cfg)
  \/ Step(1)
  \/ Tick

Spec == Init /\ [][Next]_vars

-----------------------------------------------------------------------------
(* Calls in flight together *)

\* The inputs and outcomes the interleaved calls draw from: parts of the
\* sets above, so that every interleaving of the calls can be explored.
ConcConfigs ==
  {cfg \in ConfigInputs :
     /\ cfg.apiKey = Some("k1") /\ cfg.baseUrl = Some("https://api.example.com")
     /\ cfg.own = {"apiKey", "baseUrl"}}

ConcFiles(v) ==
  IF v = "buffer"
  THEN {[kind |-> "path", path |-> <<".", "/", "report", ".", "pdf">>],
        [kind |-> "buffer", bytes |-> <<1, 2>>]}
  ELSE {[kind |-> "file", name |-> <<"photo", ".", "png">>, type |-> "image/png",
         readable |-> FALSE],
        [kind |-> "file", name |-> <<"report", ".", "pdf">>, type |-> "",
         readable |-> TRUE]}

ConcMetadatas == {Some(MetaJane), Some(MetaCircular)}

ConcReadEvents(f) ==
  CASE f.kind = "buffer" -> {[event |-> "none"]}
    [] f.kind = "path" ->
         {[event |-> "read", bytes |-> <<65>>],
          [event |-> "error",
           error |-> Err(<<"ENOENT: no such file or directory, open '">>
                         \o f.path \o <<"'">>)]}
    [] OTHER -> {}

ConcPostOutcomes ==
  {[kind |-> "response",
    data |-> [success |-> TRUE,
              timestamp |-> ServerTimestamp,
              data |-> [file |-> <<"Q", "U", "J", "D">>,
                        hash |-> "abc123",
                        metadata |-> MetaJane,
                        filename |-> None,
                        fileType |-> None]]],
   [kind |-> "error",
    error |-> AxiosErr(<<"Request failed with status code">>,
                       Some([status |-> 401,
                             data |-> Some([message |-> Some(<<"API authentication failed">>),
                                            status |-> Some(401),
                                            code |-> Some("AUTH_ERROR")])]))]}

ConcBoundaries == {"boundary-1"}

\* One step of call c among calls in flight together.
ConcStep(c) ==
  \/ \E f \in ConcFiles(variant), m \in ConcMetadatas : HashFile(c, f, m)
  \/ \E ev \in ConcReadEvents(file[c]) : Materialize(c, ev)
  \/ \E b \in ConcBoundaries : Send(c, b)
  \/ \E out \in ConcPostOutcomes : Receive(c, out)

\* One client; every call may take its next step at any time, so the calls
\* interleave in every way the awaits of hashFile allow.
ConcNext ==
  \/ \E cfg \in ConcConfigs : Construct(cfg)
  \/ \E c \in Calls : ConcStep(c)
  \/ Tick

SpecConc == Init /\ [][ConcNext]_vars

-----------------------------------------------------------------------------
(* Vocabulary of the properties *)

Done(c) == pc[c] = "done"
ReadFailed(c) == IsSome(readEvent[c]) /\ Val(readEvent[c]).event = "error"
BuildThrew(c) == IsSome(buildFault[c])
Answered(c) == IsSome(postOutcome[c])
\* The server answered 2xx with a body whose success is b.
Answered2xx(c, b) ==
  /\ Answered(c)
  /\ Val(postOutcome[c]).kind = "response"
  /\ Val(postOutcome[c]).data.success = b
\* client.post rejected.
Rejected(c) == Answered(c) /\ Val(postOutcome[c]).kind = "error"
\* The rejection carries a response with a body.
RejectedWithBody(c) ==
  /\ Rejected(c)
  /\ Val(postOutcome[c]).error.isAxios
  /\ IsSome(Val(postOutcome[c]).error.response)
  /\ IsSome(Val(Val(postOutcome[c]).error.response).data)
\* s occurs in t as a contiguous part.
Contains(t, s) ==
  \E i \in 1..(Len(t) + 1) :
    i + Len(s) - 1 <= Len(t) /\ SubSeq(t, i, i + Len(s) - 1) = s

-----------------------------------------------------------------------------
(* C1 *)

\* C1: hashFile never raises. Whatever the file reference, the outcome of
\* byte materialization, of building the request and of the HTTP call, the
\* promise never rejects; a finished call has resolved with a result, and
\* unless the server answered 2xx with success true that result is a Failure
\* (success = false).
C1_NeverRaises ==
  \A c \in Calls :
    /\ raised[c] = None
    /\ Done(c) => IsSome(result[c])
    /\ Done(c) /\ ~Answered2xx(c, TRUE) => Val(result[c]).success = FALSE

\* A call whose request was rejected by the transport has finished.
C1_Witness ==
  \E c \in Calls : Done(c) /\ Rejected(c) /\ IsSome(result[c])

-----------------------------------------------------------------------------
(* C2 *)

\* C2: constructing a client fails with a configuration error whenever apiKey
\* is empty or absent, and likewise whenever baseUrl is empty or absent, and
\* then no client, not even a partial one, is produced.
C2_RejectsMissingKeyOrUrl ==
  IsSome(ctorInput)
  /\ (~TruthyStr(Val(ctorInput).apiKey) \/ ~TruthyStr(Val(ctorInput).baseUrl))
  => IsSome(ctorError) /\ config = None /\ client = None

-----------------------------------------------------------------------------
(* C3 *)

\* The bytes the model's base64 texts stand for: 'QQ==' is "A", 'QUI=' is
\* "AB", 'QUJD' is "ABC".
KnownBytes(t) ==
  CASE t = <<"Q", "Q", "=", "=">> -> <<65>>
    [] t = <<"Q", "U", "I", "=">> -> <<65, 66>>
    [] t = <<"Q", "U", "J", "D">> -> <<65, 66, 67>>
    [] OTHER -> <<>>

\* C3: when the server answers 2xx with success true, hashFile resolves with a
\* Success result whose timestamp, data.hash and data.metadata are the
\* server's, whose data.base64File is the echoed base64 text, whose file (in
\* the buffer variant) is the bytes that text encodes, and whose filename and
\* fileType are the body's when the body gives a (non-empty) one and the
\* locally resolved ones otherwise.
C3_SuccessVerbatim ==
  \A c \in Calls :
    Done(c) /\ Answered2xx(c, TRUE) =>
      /\ IsSome(result[c])
      /\ LET body == Val(postOutcome[c]).data
             r == Val(result[c])
             local == Val(fileInfo[c])
         IN /\ r.success = TRUE
            /\ r.timestamp = body.timestamp
            /\ IsSome(r.data)
            /\ Val(r.data).hash = body.data.hash
            /\ Val(r.data).metadata = body.data.metadata
            /\ Val(r.data).base64File = body.data.file
            /\ variant = "buffer" => r.file = KnownBytes(body.data.file)
            /\ r.filename = IF TruthySeq(body.data.filename)
                            THEN Val(body.data.filename) ELSE local.filename
            /\ r.fileType = IF TruthyStr(body.data.fileType)
                            THEN Val(body.data.fileType) ELSE local.fileType

\* The buffer variant has resolved a path call whose 2xx body echoes 'QUJD'
\* and names no file.
C3_Witness ==
  \E c \in Calls :
    /\ Done(c) /\ Answered2xx(c, TRUE) /\ variant = "buffer"
    /\ file[c].kind = "path"
    /\ Val(postOutcome[c]).data.data.file = <<"Q", "U", "J", "D">>
    /\ Val(postOutcome[c]).data.data.filename = None
    /\ IsSome(result[c]) /\ Val(result[c]).file = <<65, 66, 67>>

-----------------------------------------------------------------------------
(* C4 *)

\* C4: when the server answers 2xx with success false, hashFile resolves with
\* a Failure whose error.message, error.status and error.code are the body's
\* message, status and code as they are (code absent when the body has none),
\* whether or not the body echoes a file.
C4_FailureVerbatim ==
  \A c \in Calls :
    Done(c) /\ Answered2xx(c, FALSE) =>
      /\ IsSome(result[c])
      /\ LET body == Val(postOutcome[c]).data
             r == Val(result[c])
         IN /\ r.success = FALSE
            /\ IsSome(r.error)
            /\ Val(r.error).message = body.message
            /\ Val(r.error).status = Some(body.status)
            /\ Val(r.error).code = body.code

\* A finished call whose 2xx failure body echoes a file and has no code.
C4_Witness ==
  \E c \in Calls :
    /\ Done(c) /\ Answered2xx(c, FALSE) /\ IsSome(result[c])
    /\ LET body == Val(postOutcome[c]).data
       IN /\ body.code = None
          /\ IsSome(body.data) /\ TruthySeq(Val(body.data).file)

-----------------------------------------------------------------------------
(* C5 *)

\* C5: when byte materialization fails (the file system read or the stream
\* drain ends in an error), hashFile resolves, without raising, with a Failure
\* of status 400 and code FILE_READ_ERROR whose message contains the read
\* error's message, and whose filename and fileType are the locally resolved
\* file info.
C5_ReadFailure ==
  \A c \in Calls :
    ReadFailed(c) =>
      /\ Done(c) /\ raised[c] = None /\ IsSome(result[c])
      /\ LET e == Val(readEvent[c]).error
             r == Val(result[c])
         IN /\ r.success = FALSE
            /\ IsSome(r.error)
            /\ Val(r.error).status = Some(400)
            /\ Val(r.error).code = Some("FILE_READ_ERROR")
            /\ e.isError => Contains(Val(r.error).message, e.message)
            /\ r.filename = Val(fileInfo[c]).filename
            /\ r.fileType = Val(fileInfo[c]).fileType

\* A call on a path that does not exist has finished.
C5_Witness ==
  \E c \in Calls :
    /\ ReadFailed(c) /\ Done(c) /\ file[c].kind = "path"
    /\ Val(readEvent[c]).error.message =
         <<"ENOENT: no such file or directory, open '">> \o file[c].path \o <<"'">>

-----------------------------------------------------------------------------
(* C6 *)

\* The value the catch around the request was given.
CaughtValue(c) ==
  IF BuildThrew(c) THEN Val(buildFault[c]) ELSE Val(postOutcome[c]).error

\* C6: when the transport rejects with an error that carries no response body
\* (network failure, timeout), or anything else is thrown while the request
\* is built or sent, hashFile resolves with a Failure of status 500 and code
\* UNEXPECTED_ERROR whose message is the error's message when it is an Error
\* and the generic fallback text otherwise.
C6_UnexpectedError ==
  \A c \in Calls :
    Done(c) /\ (BuildThrew(c) \/ (Rejected(c) /\ ~RejectedWithBody(c))) =>
      /\ IsSome(result[c])
      /\ LET e == CaughtValue(c)
             r == Val(result[c])
         IN /\ r.success = FALSE
            /\ IsSome(r.error)
            /\ Val(r.error).status = Some(500)
            /\ Val(r.error).code = Some("UNEXPECTED_ERROR")
            /\ Val(r.error).message =
                 IF e.isError THEN e.message ELSE <<"An unexpected error occurred">>

\* A call whose request timed out has finished.
C6_Witness ==
  \E c \in Calls :
    /\ Done(c) /\ Rejected(c) /\ ~RejectedWithBody(c)
    /\ Val(postOutcome[c]).error.message = <<"timeout of 5000ms exceeded">>
    /\ IsSome(result[c])

-----------------------------------------------------------------------------
(* C7 *)

\* C7: when the transport rejects with an error that carries a response body,
\* hashFile resolves with a Failure whose message is the body's message, else
\* the transport error's; whose status is the body's status, else the HTTP
\* status of the response, else 500; and whose code is the body's code, so
\* never UNEXPECTED_ERROR unless the body says so.  ("Else": when the value
\* before is absent, empty or zero.)
C7_StructuredError ==
  \A c \in Calls :
    Done(c) /\ RejectedWithBody(c) =>
      /\ IsSome(result[c])
      /\ LET e == Val(postOutcome[c]).error
             response == Val(e.response)
             body == Val(response.data)
             r == Val(result[c])
         IN /\ r.success = FALSE
            /\ IsSome(r.error)
            /\ Val(r.error).message =
                 IF TruthySeq(body.message) THEN Val(body.message) ELSE e.message
            /\ Val(r.error).status =
                 IF TruthyNum(body.status) THEN body.status
                 ELSE IF response.status # 0 THEN Some(response.status)
                 ELSE Some(500)
            /\ Val(r.error).code = body.code

\* HTTP 401 with body {message: "API authentication failed", status: 401,
\* code: AUTH_ERROR} has been turned into the Failure the scenario expects.
C7_Witness ==
  \E c \in Calls :
    /\ Done(c) /\ RejectedWithBody(c) /\ IsSome(result[c])
    /\ Val(Val(postOutcome[c]).error.response).status = 401
    /\ Val(Val(result[c]).error) =
         [message |-> <<"API authentication failed">>,
          status |-> Some(401),
          code |-> Some("AUTH_ERROR")]

-----------------------------------------------------------------------------
(* C8 *)

\* fn is the final segment of path p: it holds no slash, and p is fn, after
\* nothing or after a slash, followed by slashes only; it is empty only when p
\* holds nothing but slashes.
IsFinalSegment(p, fn) ==
  /\ \A i \in 1..Len(fn) : fn[i] # "/"
  /\ \E k \in 0..Len(p) :
       /\ \A i \in (Len(p) - k + 1)..Len(p) : p[i] = "/"
       /\ LET front == SubSeq(p, 1, Len(p) - k)
              n == Len(front) - Len(fn)
          IN /\ n >= 0
             /\ SubSeq(front, n + 1, Len(front)) = fn
             /\ n = 0 \/ front[n] = "/"
             /\ fn = <<>> => front = <<>>

\* The MIME type registered for an extension, application/octet-stream when
\* none is.
TypeOfExtension(ext) ==
  CASE ext \in { <<"pdf">>, <<"PDF">> } -> "application/pdf"
    [] ext \in { <<"png">>, <<"PNG">> } -> "image/png"
    [] ext = <<"txt">> -> "text/plain"
    [] ext = <<"doc">> -> "application/msword"
    [] ext = <<"dir">> -> "application/x-director"
    [] ext = <<"sub">> -> "text/vnd.dvb.subtitle"
    [] OTHER -> "application/octet-stream"

\* ty is the type of file name fn: that of the text after its last dot.  A
\* name without a dot has no extension, unless wholeNameCounts: then the whole
\* name is looked up as one.
IsTypeOfName(fn, ty, wholeNameCounts) ==
  IF \E i \in 1..Len(fn) : fn[i] = "."
  THEN \E d \in 1..Len(fn) :
         /\ fn[d] = "."
         /\ \A i \in (d + 1)..Len(fn) : fn[i] # "."
         /\ ty = TypeOfExtension(SubSeq(fn, d + 1, Len(fn)))
  ELSE ty = IF wholeNameCounts THEN TypeOfExtension(fn)
            ELSE "application/octet-stream"

\* The file info of call c is what the kind of its file reference calls for.
FileInfoAsClaimed(c, wholeNameCounts) ==
  /\ IsSome(fileInfo[c])
  /\ LET f == file[c]
         info == Val(fileInfo[c])
     IN /\ f.kind = "file" =>
             /\ info.filename = f.name
             /\ info.fileType =
                  IF f.type # "" THEN f.type ELSE "application/octet-stream"
        /\ f.kind = "path" =>
             /\ IsFinalSegment(f.path, info.filename)
             /\ IsTypeOfName(info.filename, info.fileType, wholeNameCounts)
        /\ f.kind = "path" /\ f.path = <<".", "/", "report", ".", "pdf">> =>
             info = [filename |-> <<"report", ".", "pdf">>,
                     fileType |-> "application/pdf"]
        /\ f.kind \in {"buffer", "stream"} =>
             info = [filename |-> <<"file">>,
                     fileType |-> "application/octet-stream"]

\* C8 as stated: file-info resolution never fails and depends only on the
\* file reference: a File yields its declared name and type; a path yields its
\* final segment and the MIME type of that name's extension, or
\* application/octet-stream when the extension is unknown; a buffer or stream
\* yields "file" and application/octet-stream.
C8_TypeFromExtension ==
  \A c \in Calls : pc[c] # "idle" => raised[c] = None /\ FileInfoAsClaimed(c, FALSE)

\* C8 (amended): as above, except that a path whose final segment has no dot
\* gets the MIME type registered for the whole segment taken as an extension
\* ("pdf" yields application/pdf), and application/octet-stream when none is
\* registered.
C8_FileInfo ==
  \A c \in Calls : pc[c] # "idle" => raised[c] = None /\ FileInfoAsClaimed(c, TRUE)

\* File info has been resolved for "./report.pdf".
C8_Witness ==
  \E c \in Calls :
    /\ pc[c] # "idle"
    /\ file[c] = [kind |-> "path", path |-> <<".", "/", "report", ".", "pdf">>]
    /\ IsSome(fileInfo[c])

-----------------------------------------------------------------------------
(* C9 *)

ResultFields ==
  {"success", "timestamp", "file", "filename", "fileType", "error", "data"}

\* C9: every result hashFile resolves with carries timestamp, file, filename
\* and fileType, and is one of two variants: success is true exactly when a
\* data record (hash, metadata) is present and no error descriptor is; success
\* is false exactly when an error descriptor with a message and a numeric
\* status is present and no data record is.
C9_ResultShape ==
  \A c \in Calls :
    IsSome(result[c]) =>
      LET r == Val(result[c])
      IN /\ DOMAIN r = ResultFields
         /\ r.success \in BOOLEAN
         /\ r.timestamp \in
              {ServerTimestamp} \cup {ClockReadings[t] : t \in 1..now}
         /\ r.success <=>
              /\ r.error = None
              /\ IsSome(r.data)
              /\ {"hash", "metadata"} \subseteq DOMAIN Val(r.data)
         /\ ~r.success <=>
              /\ r.data = None
              /\ IsSome(r.error)
              /\ {"message", "status"} \subseteq DOMAIN Val(r.error)
              /\ IsSome(Val(r.error).status)
              /\ Val(Val(r.error).status) \in Int

\* A rejection whose body has no status has been turned into a Failure that
\* carries the HTTP status.
C9_Witness ==
  \E c \in Calls :
    /\ Done(c) /\ RejectedWithBody(c) /\ IsSome(result[c])
    /\ Val(Val(Val(postOutcome[c]).error.response).data).status = None
    /\ Val(Val(result[c]).error).status = Some(401)

-----------------------------------------------------------------------------
(* C10 *)

\* C10 as stated: a call issues at most one request; once it has finished it
\* has issued exactly one if byte materialization succeeded or was skipped,
\* and none if materialization failed.
C10_OneRequestUnlessReadFails ==
  \A c \in Calls :
    /\ Len(requests[c]) <= 1
    /\ Done(c) => Len(requests[c]) = IF ReadFailed(c) THEN 0 ELSE 1

-----------------------------------------------------------------------------
(* C11: calls in flight together on one client *)

\* The settings the constructor derives from the configuration it was given.
ConstructedConfig ==
  mergeConfig(IF variant = "buffer" THEN DEFAULT_CONFIG ELSE DEFAULT_CONFIG_rich,
              Val(ctorInput))

\* What hashFile(f, m) resolves with when it is the only call: a function of
\* the variant, the form-data module of the build, the file reference, the
\* metadata, the read outcome ev and the transport outcome out (each looked
\* at only where a lone call gets that far).
AloneInfo(v, f) == IF v = "buffer" THEN getFileInfo(f) ELSE getFileInfo_rich(f)

AloneCaught(v, error, info, local) ==
  IF v = "buffer" THEN onRequestError(error, info, local)
  ELSE onRequestError_rich(error, info, local)

AloneResult(v, entry, f, m, ev, out) ==
  LET info == AloneInfo(v, f)
      read == IF v = "buffer" THEN fileToBuffer(f, Val(ev)) ELSE Return(f)
      formData == createFormData(entry, f, m)
      built == IF formData.type = "throw" THEN formData
               ELSE getHeaders(entry, CHOOSE b \in Boundaries : TRUE)
      tried == IF Val(out).kind = "error" THEN Throw(Val(out).error)
               ELSE IF v = "buffer"
               THEN onResponse(Val(out).data, info, read.value)
               ELSE onResponse_rich(Val(out).data, info, read.value)
  IN IF read.type = "throw" THEN onReadFailure(read.value, info)
     ELSE IF built.type = "throw" THEN AloneCaught(v, built.value, info, read.value)
     ELSE IF tried.type = "throw" THEN AloneCaught(v, tried.value, info, read.value)
     ELSE tried

\* What call c was given and what its read and its request came to.
OwnInputs(c) == <<file[c], metadata[c], readEvent[c], postOutcome[c]>>

Identical(r1, r2) == r1 = r2

\* The two results agree in everything but, when they are failures, the time
\* they are stamped with.
SameButFailureTime(r1, r2) ==
  IF r1.success \/ r2.success THEN r1 = r2
  ELSE [r1 EXCEPT !.timestamp = ""] = [r2 EXCEPT !.timestamp = ""]

\* However the calls on one client interleave: the client's configuration and
\* transport settings stay the ones fixed at construction, in every request
\* too; no call rejects; a call's file info and request are those of its own
\* file and metadata; its result is the one a lone call with the same file,
\* metadata, read outcome and transport outcome, building its result at the
\* time this call did, resolves with; and two calls with the same four, one
\* made while the other was in flight, resolve, up to Same, with the same
\* result.
CallsIndependent(Same(_, _)) ==
  /\ IsSome(client) =>
       /\ config = Some(ConstructedConfig)
       /\ client = Some(createHttpClient(ConstructedConfig))
  /\ \A c \in Calls :
       /\ raised[c] = None
       /\ pc[c] # "idle" => fileInfo[c] = Some(AloneInfo(variant, file[c]))
       /\ \A i \in 1..Len(requests[c]) :
            \E b \in Boundaries :
              requests[c][i] =
                post(createHttpClient(ConstructedConfig),
                     createFormData(formDataEntry, file[c], metadata[c]).value,
                     [headers |-> getHeaders(formDataEntry, b).value])
       /\ Done(c) =>
            LET alone == AloneResult(variant, formDataEntry, file[c], metadata[c],
                                     readEvent[c], postOutcome[c])
            IN /\ alone.type = "return"
               /\ IsSome(result[c])
               /\ SameButFailureTime(Val(result[c]), alone.value)
               /\ ~Val(result[c]).success =>
                    \E t \in 1..now : Val(result[c]).timestamp = ClockReadings[t]
  /\ \A c, d \in Calls :
       Done(c) /\ Done(d) /\ c \in inFlightWith[d] /\ OwnInputs(c) = OwnInputs(d) =>
         Same(Val(result[c]), Val(result[d]))

\* C11 as stated: for any interleaving of two or more hashFile calls on one
\* client, each call's result is determined only by its own file reference,
\* metadata and read/transport outcome, exactly as if it had run alone (calls
\* that agree in these resolve with identical results), and no call changes
\* the client's configuration or transport settings fixed at construction.
C11_ResultFromOwnInputs == CallsIndependent(Identical)

\* C11 (amended): as above, except that the timestamp of a Failure result is
\* the reading of the local clock when the result is built: calls that agree
\* in file reference, metadata and read/transport outcome resolve with results
\* that agree in every field but that timestamp, which is a reading the clock
\* has shown.
C11_CallsIndependent == CallsIndependent(SameButFailureTime)

\* The second call was made while the first was in flight, with the same
\* file, metadata and outcomes; both have failed, at different times, after
\* a request each.
C11_Witness ==
  /\ Done(1) /\ Done(2)
  /\ 1 \in inFlightWith[2]
  /\ OwnInputs(1) = OwnInputs(2)
  /\ Len(requests[1]) = 1 /\ Len(requests[2]) = 1
  /\ ~Val(result[1]).success /\ ~Val(result[2]).success
  /\ Val(result[1]).timestamp # Val(result[2]).timestamp

====
